---- MODULE Spec2Model ----
(***************************************************************************)
(* Model of cardano_clusterlib/txtools.py: the construction of the inputs  *)
(* and outputs of a transaction (_get_tx_ins_outs), i.e. filtering the     *)
(* address' UTxOs, selecting inputs per coin, balancing the outputs per    *)
(* coin, and the serialization of the balanced outputs (_process_txouts).  *)
(*                                                                         *)
(* Python lists are sequences, dicts are functions whose DOMAIN is the set *)
(* of keys, a string built by an f-string is the sequence of its pieces.   *)
(***************************************************************************)
EXTENDS Integers, Sequences, FiniteSets, TLC

\* ------------------------------------------------------------------ bounds
\* Longest UTxO snapshot (number of physical outputs of the address).
MaxUtxos == 2
\* Longest list of requested outputs.
MaxTxouts == 2

\* ------------------------------------------------------------------- data
DEFAULT_COIN == "lovelace"
Token == "policy.746f6b"
Coins == {DEFAULT_COIN, Token}

SrcAddress == "addr_src"
DstAddress == "addr_dst"

Max(a, b) == IF a >= b THEN a ELSE b

\* structs.UTXOData, the fields the transaction tools read.
UTXOData(hash, ix, amount, coin) ==
    [utxo_hash |-> hash, utxo_ix |-> ix, amount |-> amount, coin |-> coin]

\* structs.TxOut with its optional datum and reference script fields unset.
TxOut(address, amount, coin) ==
    [address |-> address, amount |-> amount, coin |-> coin,
     datum_hash |-> "", datum_hash_file |-> "", datum_hash_cbor_file |-> "",
     datum_hash_value |-> "", inline_datum_file |-> "",
     inline_datum_cbor_file |-> "", inline_datum_value |-> "",
     reference_script_file |-> ""]

\* functools.reduce(lambda x, y: x + y.amount, recs, 0)
RECURSIVE SumAmounts(_)
SumAmounts(recs) ==
    IF recs = <<>> THEN 0 ELSE Head(recs).amount + SumAmounts(Tail(recs))

\* db.get(coin) or []
DbGet(db, key) == IF key \in DOMAIN db THEN db[key] ELSE <<>>

\* f"{rec.utxo_hash}#{rec.utxo_ix}"
UtxoId(rec) == <<rec.utxo_hash, "#", rec.utxo_ix>>

\* ------------------------------------------------------------- grouping
_organize_tx_ins_outs_by_coin(tx_list) ==
    [c \in {tx_list[i].coin : i \in DOMAIN tx_list} |->
        SelectSeq(tx_list, LAMBDA rec : rec.coin = c)]

_organize_utxos_by_id(tx_list) ==
    [u \in {UtxoId(tx_list[i]) : i \in DOMAIN tx_list} |->
        SelectSeq(tx_list, LAMBDA rec : UtxoId(rec) = u)]

\* The keys of _organize_utxos_by_id(tx_list) in dict (insertion) order.
RECURSIVE IdOrder(_, _)
IdOrder(tx_list, seen) ==
    IF tx_list = <<>> THEN <<>>
    ELSE IF UtxoId(Head(tx_list)) \in seen THEN IdOrder(Tail(tx_list), seen)
    ELSE <<UtxoId(Head(tx_list))>>
            \o IdOrder(Tail(tx_list), seen \cup {UtxoId(Head(tx_list))})

\* --------------------------------------------------------------- filter
\* FilterExtend that adds the matching record alone.
FilterExtendOnlyRec(txins_by_id, rec) == <<rec>>

\* What the matching record of a not yet seen identity adds to txins.
FilterExtend(txins_by_id, rec) == txins_by_id[UtxoId(rec)]

RECURSIVE FilterLoop(_, _, _, _)
FilterLoop(rest, txins_by_id, coins, seen_ids) ==
    IF rest = <<>> THEN <<>>
    ELSE LET rec == Head(rest) IN
         IF rec.coin \in coins /\ UtxoId(rec) \notin seen_ids
         THEN FilterExtend(txins_by_id, rec)
                \o FilterLoop(Tail(rest), txins_by_id, coins,
                              seen_ids \cup {UtxoId(rec)})
         ELSE FilterLoop(Tail(rest), txins_by_id, coins, seen_ids)

_get_utxos_with_coins(address_utxos, coins) ==
    FilterLoop(address_utxos, _organize_utxos_by_id(address_utxos), coins, {})

\* ------------------------------------------------------------ collector
\* AmountPlusChange without the minimum change value.
AmountNoMinChange(utxos, amount, min_change_value) == amount

\* `_min_change_value` applies only to ADA
AmountPlusChange(utxos, amount, min_change_value) ==
    IF utxos # <<>> /\ utxos[1].coin = DEFAULT_COIN
    THEN amount + min_change_value
    ELSE amount

\* CollectBreak without the test for the exact amount.
CollectBreakNoExact(collected_amount, amount, amount_plus_change) ==
    collected_amount >= amount_plus_change

\* The tests at the head of the collector's loop that end the collection.
CollectBreak(collected_amount, amount, amount_plus_change) ==
    \/ collected_amount = amount
    \/ collected_amount >= amount_plus_change

RECURSIVE CollectLoop(_, _, _, _, _)
CollectLoop(rest, amount, amount_plus_change, collected_utxos, collected_amount) ==
    IF rest = <<>> THEN collected_utxos
    ELSE IF CollectBreak(collected_amount, amount, amount_plus_change)
    THEN collected_utxos
    ELSE CollectLoop(Tail(rest), amount, amount_plus_change,
                     Append(collected_utxos, Head(rest)),
                     collected_amount + Head(rest).amount)

_collect_utxos_amount(utxos, amount, min_change_value) ==
    CollectLoop(utxos, amount,
                AmountPlusChange(utxos, amount, min_change_value), <<>>, 0)

\* ------------------------------------------------------------- selector
HasMax(coin_txouts) == \E i \in DOMAIN coin_txouts : coin_txouts[i].amount = -1

\* InputFundsNeeded with the deposit left out of funds_needed.
InputFundsNeededNoDeposit(coin, db_passed, db_mint, fee_, withdrawals_, deposit_) ==
    LET total_output_amount == SumAmounts(DbGet(db_passed, coin)) IN
    IF coin = DEFAULT_COIN
    THEN LET tx_fee == IF fee_ > 1 THEN fee_ ELSE 1
         IN  Max(total_output_amount + tx_fee - SumAmounts(withdrawals_), tx_fee)
    ELSE total_output_amount - SumAmounts(DbGet(db_mint, coin))

\* InputFundsNeeded with the fee left out of funds_needed.
InputFundsNeededNoFee(coin, db_passed, db_mint, fee_, withdrawals_, deposit_) ==
    LET total_output_amount == SumAmounts(DbGet(db_passed, coin)) IN
    IF coin = DEFAULT_COIN
    THEN Max(total_output_amount + deposit_ - SumAmounts(withdrawals_), 0)
    ELSE total_output_amount - SumAmounts(DbGet(db_mint, coin))

\* input_funds_needed of one coin
InputFundsNeeded(coin, db_passed, db_mint, fee_, withdrawals_, deposit_) ==
    LET total_output_amount == SumAmounts(DbGet(db_passed, coin)) IN
    IF coin = DEFAULT_COIN
    THEN LET tx_fee == IF fee_ > 1 THEN fee_ ELSE 1
             funds_needed == total_output_amount + tx_fee + deposit_
             total_withdrawals_amount == SumAmounts(withdrawals_)
         IN  Max(funds_needed - total_withdrawals_amount, tx_fee)
    ELSE LET total_minted_amount == SumAmounts(DbGet(db_mint, coin))
         IN  total_output_amount - total_minted_amount

\* The UTxOs of one coin the selector takes: one pass of its loop.
SelectCoin(coin, db_ins, db_passed, db_mint, fee_, withdrawals_, mcv, deposit_) ==
    LET coin_txins == DbGet(db_ins, coin) IN
    IF HasMax(DbGet(db_passed, coin))
    THEN coin_txins
    ELSE _collect_utxos_amount(
            coin_txins,
            InputFundsNeeded(coin, db_passed, db_mint, fee_, withdrawals_, deposit_),
            mcv)

\* Per coin of the selector's loop, the UTxOs whose ids it adds to utxo_ids.
SelectLoop(db_ins, db_passed, db_mint, fee_, withdrawals_, mcv, deposit_) ==
    [coin \in DOMAIN db_ins \cup DOMAIN db_passed \cup DOMAIN db_mint |->
        SelectCoin(coin, db_ins, db_passed, db_mint, fee_, withdrawals_, mcv, deposit_)]

IdsOf(recs) == {UtxoId(recs[i]) : i \in DOMAIN recs}

_select_utxos(db_ins, db_passed, db_mint, fee_, withdrawals_, mcv, deposit_) ==
    LET taken == SelectLoop(db_ins, db_passed, db_mint, fee_, withdrawals_, mcv, deposit_)
    IN  UNION {IdsOf(taken[coin]) : coin \in DOMAIN taken}

\* ------------------------------------------------------------- balancer
MaxIndex(coin_txouts) == {i \in DOMAIN coin_txouts : coin_txouts[i].amount = -1}

\* TooManyMax off by one.
TooManyMaxOffByOne(coin_txouts) == Cardinality(MaxIndex(coin_txouts)) > 2

\* len(max_index) > 1
TooManyMax(coin_txouts) == Cardinality(MaxIndex(coin_txouts)) > 1

\* coin_txouts.pop(idx): the list without its element idx
Pop(s, idx) == SubSeq(s, 1, idx - 1) \o SubSeq(s, idx + 1, Len(s))

\* coin_txouts after the "-1" handling of one pass of the balancer's loop
AfterPop(coin_txouts) ==
    IF MaxIndex(coin_txouts) # {}
    THEN Pop(coin_txouts, CHOOSE i \in MaxIndex(coin_txouts) :
                             \A j \in MaxIndex(coin_txouts) : i <= j)
    ELSE coin_txouts

\* max_address: "" stands for None (both are falsy in `max_address or src_address`)
MaxAddress(coin_txouts) ==
    IF MaxIndex(coin_txouts) # {}
    THEN coin_txouts[CHOOSE i \in MaxIndex(coin_txouts) :
                        \A j \in MaxIndex(coin_txouts) : i <= j].address
    ELSE ""

\* CoinChange with the deposit left out of funds_needed.
CoinChangeNoDeposit(coin, coin_txins, coin_txouts, db_mint, fee_, withdrawals_, deposit_, balanced) ==
    LET total_input_amount == SumAmounts(coin_txins)
        total_output_amount == SumAmounts(coin_txouts)
    IN  IF coin = DEFAULT_COIN /\ balanced THEN 0
        ELSE IF coin = DEFAULT_COIN
        THEN LET tx_fee == IF fee_ > 0 THEN fee_ ELSE 0
             IN  total_input_amount + SumAmounts(withdrawals_)
                    - (total_output_amount + tx_fee)
        ELSE total_input_amount + SumAmounts(DbGet(db_mint, coin)) - total_output_amount

\* change of one coin; coin_txouts is the list after the pop
CoinChange(coin, coin_txins, coin_txouts, db_mint, fee_, withdrawals_, deposit_, balanced) ==
    LET total_input_amount == SumAmounts(coin_txins)
        total_output_amount == SumAmounts(coin_txouts)
    IN  IF coin = DEFAULT_COIN /\ balanced THEN 0
        ELSE IF coin = DEFAULT_COIN
        THEN LET tx_fee == IF fee_ > 0 THEN fee_ ELSE 0
                 funds_available == total_input_amount + SumAmounts(withdrawals_)
                 funds_needed == total_output_amount + tx_fee + deposit_
             IN  funds_available - funds_needed
        ELSE LET funds_available == total_input_amount + SumAmounts(DbGet(db_mint, coin))
             IN  funds_available - total_output_amount

\* ChangeTxouts that sends every change to the source address.
ChangeTxoutsToSrc(coin, change, max_address, src) ==
    IF change > 0 THEN <<TxOut(src, change, coin)>> ELSE <<>>

\* the change output one pass of the loop appends to txouts_result
ChangeTxouts(coin, change, max_address, src) ==
    IF change > 0
    THEN <<TxOut(IF max_address # "" THEN max_address ELSE src, change, coin)>>
    ELSE <<>>

\* FilterResult that filters nothing.
FilterResultKeepAll(txouts_result_) == txouts_result_

\* filter out negative amounts (tokens burning and -1 "max" amounts)
FilterResult(txouts_result_) == SelectSeq(txouts_result_, LAMBDA r : r.amount > 0)

\* The balancer's loop over the coins in the order coin_order, for lists of
\* requested outputs without a second "-1" of a coin: the unfiltered result.
RECURSIVE BalanceLoop(_, _, _, _, _, _, _, _, _, _)
BalanceLoop(coin_order, result, src, db_ins, db_passed, db_mint, fee_, withdrawals_, deposit_, balanced) ==
    IF coin_order = <<>> THEN result
    ELSE LET coin == Head(coin_order)
             before == DbGet(db_passed, coin)
             change == CoinChange(coin, DbGet(db_ins, coin), AfterPop(before), db_mint,
                                  fee_, withdrawals_, deposit_, balanced)
         IN  BalanceLoop(Tail(coin_order),
                         result \o ChangeTxouts(coin, change, MaxAddress(before), src),
                         src, db_ins, db_passed, db_mint, fee_, withdrawals_, deposit_,
                         balanced)

\* What _balance_txouts returns when its loop visits the coins in coin_order.
_balance_txouts(coin_order, src, txouts_, db_ins, db_passed, db_mint, fee_, withdrawals_, deposit_, balanced) ==
    FilterResult(BalanceLoop(coin_order, txouts_, src, db_ins, db_passed, db_mint, fee_,
                             withdrawals_, deposit_, balanced))

\* ---------------------------------------------------------- serialization
\* A Python string is the sequence of the pieces it is formatted from.
Str(x) == <<x>>

PlutusDatumArgs(txout) ==
    IF txout.datum_hash # "" THEN <<Str("--tx-out-datum-hash"), Str(txout.datum_hash)>>
    ELSE IF txout.datum_hash_file # ""
    THEN <<Str("--tx-out-datum-hash-file"), Str(txout.datum_hash_file)>>
    ELSE IF txout.datum_hash_cbor_file # ""
    THEN <<Str("--tx-out-datum-hash-cbor-file"), Str(txout.datum_hash_cbor_file)>>
    ELSE IF txout.datum_hash_value # ""
    THEN <<Str("--tx-out-datum-hash-value"), Str(txout.datum_hash_value)>>
    ELSE IF txout.inline_datum_file # ""
    THEN <<Str("--tx-out-inline-datum-file"), Str(txout.inline_datum_file)>>
    ELSE IF txout.inline_datum_cbor_file # ""
    THEN <<Str("--tx-out-inline-datum-cbor-file"), Str(txout.inline_datum_cbor_file)>>
    ELSE IF txout.inline_datum_value # ""
    THEN <<Str("--tx-out-inline-datum-value"), Str(txout.inline_datum_value)>>
    ELSE <<>>

_get_txout_plutus_args(txout) ==
    PlutusDatumArgs(txout)
      \o (IF txout.reference_script_file # ""
          THEN <<Str("--tx-out-reference-script-file"), Str(txout.reference_script_file)>>
          ELSE <<>>)

\* str(rec.datum_hash or rec.datum_hash_file or ... or rec.inline_datum_value)
DatumSrc(rec) ==
    IF rec.datum_hash # "" THEN rec.datum_hash
    ELSE IF rec.datum_hash_file # "" THEN rec.datum_hash_file
    ELSE IF rec.datum_hash_cbor_file # "" THEN rec.datum_hash_cbor_file
    ELSE IF rec.datum_hash_value # "" THEN rec.datum_hash_value
    ELSE IF rec.inline_datum_file # "" THEN rec.inline_datum_file
    ELSE IF rec.inline_datum_cbor_file # "" THEN rec.inline_datum_cbor_file
    ELSE rec.inline_datum_value

\* txouts_datum_order: the distinct datum_src in order of first appearance
RECURSIVE DatumOrder(_, _)
DatumOrder(recs, seen) ==
    IF recs = <<>> THEN <<>>
    ELSE IF DatumSrc(Head(recs)) \in seen THEN DatumOrder(Tail(recs), seen)
    ELSE <<DatumSrc(Head(recs))>>
            \o DatumOrder(Tail(recs), seen \cup {DatumSrc(Head(recs))})

\* The keys of txouts_by_addr: the distinct addresses in dict (insertion) order.
RECURSIVE AddrOrder(_, _)
AddrOrder(recs, seen) ==
    IF recs = <<>> THEN <<>>
    ELSE IF Head(recs).address \in seen THEN AddrOrder(Tail(recs), seen)
    ELSE <<Head(recs).address>>
            \o AddrOrder(Tail(recs), seen \cup {Head(recs).address})

\* f"{rec.amount}{coin}" for each record, joined by "+", after f"{addr}+"
RECURSIVE JoinedAmounts(_)
JoinedAmounts(recs) ==
    IF recs = <<>> THEN <<>>
    ELSE LET rec == Head(recs)
             coin == IF rec.coin # "" /\ rec.coin # DEFAULT_COIN
                     THEN <<" ", rec.coin>> ELSE <<>>
         IN  <<"+", ToString(rec.amount)>> \o coin \o JoinedAmounts(Tail(recs))

\* The arguments of one group of outputs with the same address and datum.
JoinGroup(addr, recs) ==
    <<Str("--tx-out"), <<addr>> \o JoinedAmounts(recs)>>
      \o _get_txout_plutus_args(recs[1])

RECURSIVE JoinAddrs(_, _)
JoinAddrs(addrs, recs) ==
    IF addrs = <<>> THEN <<>>
    ELSE JoinGroup(Head(addrs), SelectSeq(recs, LAMBDA r : r.address = Head(addrs)))
            \o JoinAddrs(Tail(addrs), recs)

RECURSIVE JoinDatums(_, _)
JoinDatums(datum_order, txouts_) ==
    IF datum_order = <<>> THEN <<>>
    ELSE LET recs == SelectSeq(txouts_, LAMBDA r : DatumSrc(r) = Head(datum_order))
         IN  JoinAddrs(AddrOrder(recs, {}), recs)
               \o JoinDatums(Tail(datum_order), txouts_)

_join_txouts(txouts_) == JoinDatums(DatumOrder(txouts_, {}), txouts_)

\* f"{rec.address}+{rec.amount}" and the record's plutus arguments
ListGroup(rec) ==
    <<Str("--tx-out"), <<rec.address, "+", ToString(rec.amount)>>>>
      \o _get_txout_plutus_args(rec)

RECURSIVE _list_txouts(_)
_list_txouts(txouts_) ==
    IF txouts_ = <<>> THEN <<>>
    ELSE ListGroup(Head(txouts_)) \o _list_txouts(Tail(txouts_))

_process_txouts(txouts_, join) ==
    IF join THEN _join_txouts(txouts_) ELSE _list_txouts(txouts_)

\* ------------------------------------------------------------------ state
VARIABLES
    \* arguments of _get_tx_ins_outs and the collaborators' answers
    utxo_snapshot,      \* clusterlib_obj.get_utxo(address=src_address)
    txins,              \* explicit inputs, <<>> when not passed
    txouts,             \* requested outputs
    mint_txouts,        \* mint / burn records
    fee,
    deposit,            \* <<>> for None, <<d>> for a passed deposit
    withdrawals,        \* resolved withdrawals
    min_change_value,   \* clusterlib_obj._min_change_value
    lovelace_balanced,
    \* locals of _get_tx_ins_outs and _balance_txouts
    pc,
    txouts_passed_db,
    txins_all,
    tx_deposit,
    filtered_coin_utxos,    \* per coin, the UTxOs the selector's loop took
    selected_utxo_ids,
    txins_filtered,
    pending,            \* coins the balancer's loop has still to visit
    balanced_coins,     \* coins the balancer's loop has visited, in order
    txouts_result,
    log,                \* LOGGER.error records: <<message, coin>>
    calls,              \* functions called so far, in order
    join_txouts,
    txout_args

args == <<utxo_snapshot, txins, txouts, mint_txouts, fee, deposit, withdrawals,
          min_change_value, lovelace_balanced>>
locals == <<pc, txouts_passed_db, txins_all, tx_deposit, filtered_coin_utxos,
            selected_utxo_ids,
            txins_filtered, pending, balanced_coins, txouts_result, log, calls,
            join_txouts, txout_args>>
vars == <<args, locals>>

txouts_mint_db == _organize_tx_ins_outs_by_coin(mint_txouts)
txins_db_all == _organize_tx_ins_outs_by_coin(txins_all)
txins_db_filtered == _organize_tx_ins_outs_by_coin(txins_filtered)

\* clusterlib_obj.get_tx_deposit(tx_files=tx_files)
GetTxDeposit == 2

\* ------------------------------------------------------------ input sets
SeqsUpTo(S, n) == UNION {[1..k -> S] : k \in 0..n}

\* A physical output holds <<lovelace, token>> amounts; 0: none of the coin.
UtxoKinds == {<<4, 0>>, <<2, 2>>, <<0, 1>>}

UtxoRecords(ix, kind) ==
    (IF kind[1] > 0 THEN <<UTXOData("tx", ix, kind[1], DEFAULT_COIN)>> ELSE <<>>)
      \o (IF kind[2] > 0 THEN <<UTXOData("tx", ix, kind[2], Token)>> ELSE <<>>)

\* The records of the outputs tx#0, tx#1, ... in the order `query utxo` lists them.
RECURSIVE Snapshot(_, _)
Snapshot(kinds, ix) ==
    IF kinds = <<>> THEN <<>>
    ELSE UtxoRecords(ix, Head(kinds)) \o Snapshot(Tail(kinds), ix + 1)

TxOutChoices ==
    {TxOut(DstAddress, 2, DEFAULT_COIN), TxOut(DstAddress, 1, Token),
     TxOut(DstAddress, -1, DEFAULT_COIN), TxOut(SrcAddress, -1, DEFAULT_COIN),
     TxOut(DstAddress, -1, Token)}

Mint == <<TxOut(SrcAddress, 1, Token)>>
Burn == <<TxOut(SrcAddress, -2, Token)>>
Reward == <<TxOut("stake_addr", 3, DEFAULT_COIN)>>

\* Explicit inputs: what get_utxo(address, coins) returns.
AllUtxos(snapshot) == snapshot
TokenUtxos(snapshot) == SelectSeq(snapshot, LAMBDA r : r.coin = Token)

\* Automatic selection: fee, deposit, withdrawals and minimum change vary.
InitSelection ==
    /\ txins = <<>>
    /\ mint_txouts = <<>>
    /\ fee \in {0, 2}
    /\ deposit \in {<<>>, <<0>>}
    /\ withdrawals \in {<<>>, Reward}
    /\ min_change_value \in {0, 2}
    /\ min_change_value = 0 \/ deposit = <<0>>
    /\ lovelace_balanced = FALSE

\* Minting and burning, with selected and with given inputs.
InitMint ==
    /\ txins \in {<<>>, AllUtxos(utxo_snapshot)}
    /\ mint_txouts \in {Mint, Burn}
    /\ fee = 2
    /\ deposit = <<0>>
    /\ withdrawals = <<>>
    /\ min_change_value = 0
    /\ lovelace_balanced = FALSE

\* Given inputs, with and without the balancing of lovelace.
InitGiven ==
    /\ txins \in {AllUtxos(utxo_snapshot), TokenUtxos(utxo_snapshot)}
    /\ txins # <<>>
    /\ mint_txouts = <<>>
    /\ fee = 2
    /\ deposit = <<0>>
    /\ withdrawals \in {<<>>, Reward}
    /\ min_change_value = 0
    /\ lovelace_balanced \in BOOLEAN

\* Automatic selection for `transaction build`, which balances lovelace itself.
InitBuild ==
    /\ txins = <<>>
    /\ mint_txouts = <<>>
    /\ fee = 2
    /\ deposit = <<0>>
    /\ withdrawals = <<>>
    /\ min_change_value \in {0, 2}
    /\ lovelace_balanced = TRUE

Init ==
    /\ \E kinds \in SeqsUpTo(UtxoKinds, MaxUtxos) : utxo_snapshot = Snapshot(kinds, 0)
    /\ txouts \in SeqsUpTo(TxOutChoices, MaxTxouts)
    /\ InitSelection \/ InitMint \/ InitGiven \/ InitBuild
    /\ pc = "start"
    /\ txouts_passed_db = <<>>
    /\ txins_all = <<>>
    /\ tx_deposit = 0
    /\ filtered_coin_utxos = <<>>
    /\ selected_utxo_ids = {}
    /\ txins_filtered = <<>>
    /\ pending = {}
    /\ balanced_coins = <<>>
    /\ txouts_result = <<>>
    /\ log = {}
    /\ calls = <<>>
    /\ join_txouts = FALSE
    /\ txout_args = <<>>

\* ---------------------------------------------------------------- actions
NoInputMsg == <<"No input UTxO.", "">>
MissingCoinMsg == <<"Not all output coins are present in input UTxO.", "">>
EmptyTxinsMsg == <<"Cannot build transaction, empty txins.", "">>
NotEnoughFundsMsg(coin) == <<"Not enough funds", coin>>

\* _get_tx_ins_outs up to the validation of the candidate inputs
Prepare ==
    /\ pc = "start"
    /\ LET passed_db == _organize_tx_ins_outs_by_coin(txouts)
           outcoins_all == {DEFAULT_COIN} \cup DOMAIN txouts_mint_db \cup DOMAIN passed_db
           outcoins_passed == {DEFAULT_COIN} \cup DOMAIN passed_db
           all == IF txins # <<>> THEN txins
                  ELSE _get_utxos_with_coins(utxo_snapshot, outcoins_all)
           db_all == _organize_tx_ins_outs_by_coin(all)
       IN  /\ txouts_passed_db' = passed_db
           /\ txins_all' = all
           /\ calls' = IF txins # <<>> THEN calls
                       ELSE Append(calls, "_get_utxos_with_coins")
           /\ log' = IF all = <<>> THEN {NoInputMsg}
                     ELSE IF ~((outcoins_passed \ DOMAIN txouts_mint_db) \subseteq DOMAIN db_all)
                     THEN {MissingCoinMsg}
                     ELSE {}
    /\ tx_deposit' = IF deposit = <<>> THEN GetTxDeposit ELSE deposit[1]
    /\ pc' = "prepared"
    /\ UNCHANGED <<args, filtered_coin_utxos, selected_utxo_ids, txins_filtered,
                   pending, balanced_coins, txouts_result, join_txouts, txout_args>>

\* The start of _balance_txouts: its locals before the loop over the coins.
EnterBalancer(filtered) ==
    /\ log' = IF filtered = <<>> THEN log \cup {EmptyTxinsMsg} ELSE log
    /\ txouts_result' = txouts
    /\ pending' = DOMAIN _organize_tx_ins_outs_by_coin(filtered)
                    \cup DOMAIN txouts_passed_db \cup DOMAIN txouts_mint_db
    /\ pc' = "balancing"

\* don't touch txins that were passed to the function
UseGivenInputs ==
    /\ pc = "prepared"
    /\ txins # <<>>
    /\ txins_filtered' = txins_all
    /\ EnterBalancer(txins_all)
    /\ calls' = Append(calls, "_balance_txouts")
    /\ UNCHANGED <<args, txouts_passed_db, txins_all, tx_deposit, filtered_coin_utxos,
                   selected_utxo_ids,
                   balanced_coins, join_txouts, txout_args>>

\* The records of the selected identities, identity by identity.
RECURSIVE ExpandIds(_, _, _)
ExpandIds(id_order, txins_by_id, ids) ==
    IF id_order = <<>> THEN <<>>
    ELSE (IF Head(id_order) \in ids THEN txins_by_id[Head(id_order)] ELSE <<>>)
            \o ExpandIds(Tail(id_order), txins_by_id, ids)

\* select only UTxOs that are needed to satisfy all outputs, deposits and fee
SelectInputs ==
    /\ pc = "prepared"
    /\ txins = <<>>
    /\ LET ids == _select_utxos(txins_db_all, txouts_passed_db, txouts_mint_db, fee,
                                withdrawals, min_change_value, tx_deposit)
           filtered == ExpandIds(IdOrder(txins_all, {}),
                                 _organize_utxos_by_id(txins_all), ids)
       IN  /\ selected_utxo_ids' = ids
           /\ filtered_coin_utxos' =
                SelectLoop(txins_db_all, txouts_passed_db, txouts_mint_db, fee,
                           withdrawals, min_change_value, tx_deposit)
           /\ txins_filtered' = filtered
           /\ EnterBalancer(filtered)
    /\ calls' = calls \o <<"_select_utxos", "_balance_txouts">>
    /\ UNCHANGED <<args, txouts_passed_db, txins_all, tx_deposit, balanced_coins,
                   join_txouts, txout_args>>

\* One pass of the balancer's loop, for a coin with at most one "-1" output.
BalanceCoin(coin) ==
    /\ pc = "balancing"
    /\ coin \in pending
    /\ ~TooManyMax(DbGet(txouts_passed_db, coin))
    /\ LET coin_txins == DbGet(txins_db_filtered, coin)
           before == DbGet(txouts_passed_db, coin)
           coin_txouts == AfterPop(before)
           change == CoinChange(coin, coin_txins, coin_txouts, txouts_mint_db, fee,
                                withdrawals, tx_deposit, lovelace_balanced)
       IN  /\ txouts_passed_db' =
                IF coin \in DOMAIN txouts_passed_db
                THEN [txouts_passed_db EXCEPT ![coin] = coin_txouts]
                ELSE txouts_passed_db
           /\ log' = IF change < 0 THEN log \cup {NotEnoughFundsMsg(coin)} ELSE log
           /\ txouts_result' =
                txouts_result \o ChangeTxouts(coin, change, MaxAddress(before), SrcAddress)
    /\ pending' = pending \ {coin}
    /\ balanced_coins' = Append(balanced_coins, coin)
    /\ UNCHANGED <<args, pc, txins_all, tx_deposit, filtered_coin_utxos,
                   selected_utxo_ids, txins_filtered,
                   calls, join_txouts, txout_args>>

\* raise CLIError("Cannot send all remaining funds to more than one address.")
BalanceRaise(coin) ==
    /\ pc = "balancing"
    /\ coin \in pending
    /\ TooManyMax(DbGet(txouts_passed_db, coin))
    /\ pc' = "raised"
    /\ UNCHANGED <<args, txouts_passed_db, txins_all, tx_deposit, filtered_coin_utxos,
                   selected_utxo_ids,
                   txins_filtered, pending, balanced_coins, txouts_result, log, calls,
                   join_txouts, txout_args>>

\* The end of _balance_txouts and the return of _get_tx_ins_outs.
Return ==
    /\ pc = "balancing"
    /\ pending = {}
    /\ txouts_result' = FilterResult(txouts_result)
    /\ pc' = "returned"
    /\ UNCHANGED <<args, txouts_passed_db, txins_all, tx_deposit, filtered_coin_utxos,
                   selected_utxo_ids,
                   txins_filtered, pending, balanced_coins, log, calls, join_txouts,
                   txout_args>>

\* The caller serializes the balanced outputs.
ProcessTxouts(join) ==
    /\ pc = "returned"
    /\ join_txouts' = join
    /\ txout_args' = _process_txouts(txouts_result, join)
    /\ calls' = Append(calls, "_process_txouts")
    /\ pc' = "serialized"
    /\ UNCHANGED <<args, txouts_passed_db, txins_all, tx_deposit, filtered_coin_utxos,
                   selected_utxo_ids,
                   txins_filtered, pending, balanced_coins, txouts_result, log>>

Next ==
    \/ Prepare
    \/ UseGivenInputs
    \/ SelectInputs
    \/ \E coin \in Coins : BalanceCoin(coin)
    \/ \E coin \in Coins : BalanceRaise(coin)
    \/ Return
    \/ \E join \in BOOLEAN : ProcessTxouts(join)

Spec == Init /\ [][Next]_vars

\* ------------------------------------------------- vocabulary of the claims
Returned == pc \in {"returned", "serialized"}
AutoSelected == txins = <<>>

OfCoin(recs, coin) == SelectSeq(recs, LAMBDA r : r.coin = coin)
Elems(seq) == {seq[i] : i \in DOMAIN seq}

\* The requested outputs by coin, as they were passed in.
PassedDb == _organize_tx_ins_outs_by_coin(txouts)
\* The coins the balancer's loop visits.
BalancerCoins == DOMAIN txins_db_filtered \cup DOMAIN PassedDb \cup DOMAIN txouts_mint_db
\* The requested outputs of a coin that carry an amount, not the -1 sentinel.
Requested(coin) == SelectSeq(txouts, LAMBDA r : r.coin = coin /\ r.amount # -1)
MaxOutputs(coin) == SelectSeq(txouts, LAMBDA r : r.coin = coin /\ r.amount = -1)

InputTotal(coin) == SumAmounts(OfCoin(txins_filtered, coin))
CandidateTotal(coin) == SumAmounts(OfCoin(txins_all, coin))
RequestedTotal(coin) == SumAmounts(Requested(coin))
MintedTotal(coin) == SumAmounts(OfCoin(mint_txouts, coin))
WithdrawalTotal(coin) == IF coin = DEFAULT_COIN THEN SumAmounts(withdrawals) ELSE 0
FeeOf(coin) == IF coin = DEFAULT_COIN THEN fee ELSE 0
DepositOf(coin) == IF coin = DEFAULT_COIN THEN tx_deposit ELSE 0
Delegated(coin) == coin = DEFAULT_COIN /\ lovelace_balanced

\* inputs + withdrawals + minted - requested outputs - fee - deposit
Surplus(coin) ==
    InputTotal(coin) + WithdrawalTotal(coin) + MintedTotal(coin)
      - RequestedTotal(coin) - FeeOf(coin) - DepositOf(coin)

\* The returned outputs after the requested outputs that were kept.
KeptTxouts == SelectSeq(txouts, LAMBDA r : r.amount > 0)
Appended == SubSeq(txouts_result, Len(KeptTxouts) + 1, Len(txouts_result))
ChangeOutputs(coin) == OfCoin(Appended, coin)
ChangeAmount(coin) == SumAmounts(ChangeOutputs(coin))

\* ------------------------------------------------------------------ claims
\* C1, as stated: for every coin the balancer processed, inputs + withdrawals
\* + minted = requested outputs + fee + deposit + change, and change >= 0.
C1_AsStated ==
    Returned =>
        \A coin \in Elems(balanced_coins) :
            /\ ChangeAmount(coin) >= 0
            /\ InputTotal(coin) + WithdrawalTotal(coin) + MintedTotal(coin)
                 = RequestedTotal(coin) + FeeOf(coin) + DepositOf(coin)
                     + ChangeAmount(coin)

\* C1, amended: when the balancer returns, for every coin it processed other
\* than a delegated base coin: if inputs + withdrawals + minted cover requested
\* outputs + fee + deposit, the change output appended for the coin carries
\* exactly the difference (none when it is 0), so the two sides are equal;
\* otherwise no change output is appended and the shortage is logged.  No
\* change output is appended for a delegated base coin, and no appended
\* change is negative or zero.
C1_Balance ==
    Returned =>
        \A coin \in Elems(balanced_coins) :
            /\ \A i \in DOMAIN ChangeOutputs(coin) : ChangeOutputs(coin)[i].amount > 0
            /\ Len(ChangeOutputs(coin)) <= 1
            /\ IF Delegated(coin) THEN ChangeOutputs(coin) = <<>>
               ELSE IF Surplus(coin) >= 0
               THEN /\ ChangeAmount(coin) = Surplus(coin)
                    /\ NotEnoughFundsMsg(coin) \notin log
               ELSE /\ ChangeOutputs(coin) = <<>>
                    /\ NotEnoughFundsMsg(coin) \in log

\* A balanced transaction with fee, deposit and withdrawal whose change of
\* both coins is positive.
C1_Witness ==
    /\ Returned
    /\ ~lovelace_balanced
    /\ fee > 0 /\ tx_deposit > 0 /\ withdrawals # <<>>
    /\ ChangeAmount(DEFAULT_COIN) > 0
    /\ ChangeAmount(Token) > 0

\* The base-coin UTxOs the collector took, and the ones it could take.
BaseTaken == DbGet(filtered_coin_utxos, DEFAULT_COIN)
BaseCandidates == OfCoin(txins_all, DEFAULT_COIN)

C2_Applies ==
    /\ Returned
    /\ AutoSelected
    /\ ~lovelace_balanced
    /\ MaxOutputs(DEFAULT_COIN) = <<>>

ClaimedFundsNeeded(coin) ==
    IF coin = DEFAULT_COIN
    THEN Max(RequestedTotal(coin) + Max(fee, 1) + tx_deposit - SumAmounts(withdrawals),
             Max(fee, 1))
    ELSE RequestedTotal(coin) - MintedTotal(coin)

\* The coins the selector's loop visits.
SelectorCoins == DOMAIN txins_db_all \cup DOMAIN PassedDb \cup DOMAIN txouts_mint_db

\* C3, as stated: after selection and balancing, for every coin without a -1
\* output the selected total is >= funds-needed, unless the candidates are
\* insufficient; then the selected total is < funds-needed and the balancer
\* logged an insufficient-funds error for the coin.
C3_AsStated ==
    Returned /\ AutoSelected =>
        \A coin \in SelectorCoins :
            MaxOutputs(coin) = <<>> =>
                IF CandidateTotal(coin) >= ClaimedFundsNeeded(coin)
                THEN InputTotal(coin) >= ClaimedFundsNeeded(coin)
                ELSE /\ InputTotal(coin) < ClaimedFundsNeeded(coin)
                     /\ NotEnoughFundsMsg(coin) \in log

\* C3, amended: as stated, except that with insufficient candidates every
\* candidate of the coin is selected and the balancer, when it returns, logs
\* the insufficient-funds error always for a coin other than the base coin,
\* but for the base coin only when its balancing is not delegated and inputs +
\* withdrawals - requested outputs - fee - deposit is negative.
C3_FundsNeeded ==
    Returned /\ AutoSelected =>
        \A coin \in SelectorCoins :
            MaxOutputs(coin) = <<>> =>
                IF CandidateTotal(coin) >= ClaimedFundsNeeded(coin)
                THEN InputTotal(coin) >= ClaimedFundsNeeded(coin)
                ELSE /\ InputTotal(coin) < ClaimedFundsNeeded(coin)
                     /\ InputTotal(coin) = CandidateTotal(coin)
                     /\ coin # DEFAULT_COIN => NotEnoughFundsMsg(coin) \in log
                     /\ NotEnoughFundsMsg(coin) \in log
                          <=> (~Delegated(coin) /\ Surplus(coin) < 0)

\* A token that is short and logged, beside a base coin covered by a part of
\* its candidates.
C3_Witness ==
    /\ Returned /\ AutoSelected
    /\ MaxOutputs(Token) = <<>> /\ MaxOutputs(DEFAULT_COIN) = <<>>
    /\ CandidateTotal(Token) > 0
    /\ CandidateTotal(Token) < ClaimedFundsNeeded(Token)
    /\ NotEnoughFundsMsg(Token) \in log
    /\ InputTotal(DEFAULT_COIN) >= ClaimedFundsNeeded(DEFAULT_COIN)
    /\ InputTotal(DEFAULT_COIN) < CandidateTotal(DEFAULT_COIN)

\* Some coin has more than one -1 output among the requested outputs.
DoubleMax == \E coin \in Coins : Len(MaxOutputs(coin)) > 1
Called(f) == \E i \in DOMAIN calls : calls[i] = f

\* C4, as stated: with more than one -1 output of a coin the orchestrator
\* ends with a fatal error and returns nothing, the error comes before any
\* input selection and before any coin is balanced; with at most one -1
\* output per coin there is no such error.
C4_AsStated ==
    /\ Returned => ~DoubleMax
    /\ (DoubleMax /\ pc = "balancing") =>
          \E coin \in pending : TooManyMax(DbGet(txouts_passed_db, coin))
    /\ pc = "raised" =>
          /\ DoubleMax
          /\ ~Called("_get_utxos_with_coins")
          /\ ~Called("_select_utxos")
          /\ balanced_coins = <<>>

\* C4, amended: with more than one -1 output of a coin the orchestrator ends
\* with a fatal error and returns nothing; the error is raised inside the
\* balancer, after the candidate inputs were fetched and selected, when the
\* balancer's loop reaches such a coin, which is still to be visited for as
\* long as the balancer runs; with at most one -1 output per coin there is
\* no such error.
C4_FatalInBalancer ==
    /\ Returned => ~DoubleMax
    /\ (DoubleMax /\ pc = "balancing") =>
          \E coin \in pending : TooManyMax(DbGet(txouts_passed_db, coin))
    /\ pc = "raised" =>
          /\ DoubleMax
          /\ calls[Len(calls)] = "_balance_txouts"
          /\ AutoSelected => Called("_get_utxos_with_coins") /\ Called("_select_utxos")
          /\ \E coin \in pending : Len(MaxOutputs(coin)) > 1
          /\ \A i \in DOMAIN balanced_coins : Len(MaxOutputs(balanced_coins[i])) <= 1

\* The fatal error after selection, validation errors and a balanced coin.
C4_Witness ==
    /\ pc = "raised"
    /\ AutoSelected
    /\ Called("_select_utxos")
    /\ selected_utxo_ids # {}
    /\ balanced_coins # <<>>

OneMax(coin) == Len(MaxOutputs(coin)) = 1
C5_Applies(coin) == Returned /\ OneMax(coin) /\ ~Delegated(coin)

\* The parts of C5 that do not mention the source address: every candidate
\* of the coin is selected and returned, the only output added for the coin
\* goes to the address of the -1 output with the remaining amount, and no
\* -1 record is in the result.
C5_SendAllParts(coin) ==
    /\ AutoSelected => filtered_coin_utxos[coin] = OfCoin(txins_all, coin)
    /\ OfCoin(txins_filtered, coin) = OfCoin(txins_all, coin)
    /\ ChangeOutputs(coin) =
          IF Surplus(coin) > 0
          THEN <<TxOut(MaxOutputs(coin)[1].address, Surplus(coin), coin)>>
          ELSE <<>>
    /\ \A i \in DOMAIN txouts_result : txouts_result[i].amount # -1

\* C5, as stated: with exactly one -1 output of a coin (base coin: not
\* delegated) every candidate is selected, no change output of the coin goes
\* to the source address, the only added output goes to the -1 address with
\* amount inputs (+ withdrawals / minted) - other outputs (- fee - deposit),
\* and the -1 record is not in the result.
C5_AsStated ==
    \A coin \in Coins :
        C5_Applies(coin) =>
            /\ C5_SendAllParts(coin)
            /\ \A i \in DOMAIN ChangeOutputs(coin) :
                  ChangeOutputs(coin)[i].address # SrcAddress

\* C5, amended: as stated, but a change output of the coin goes to the
\* source address when the -1 output itself is addressed to the source
\* address, and only then.
C5_SendAll ==
    \A coin \in Coins :
        C5_Applies(coin) =>
            /\ C5_SendAllParts(coin)
            /\ MaxOutputs(coin)[1].address # SrcAddress =>
                  \A i \in DOMAIN ChangeOutputs(coin) :
                      ChangeOutputs(coin)[i].address # SrcAddress

\* All remaining lovelace and all remaining (partly minted) tokens are sent
\* to the destination address.
C5_Witness ==
    /\ C5_Applies(DEFAULT_COIN) /\ C5_Applies(Token)
    /\ AutoSelected
    /\ mint_txouts # <<>>
    /\ ChangeOutputs(DEFAULT_COIN) # <<>>
    /\ ChangeOutputs(Token) # <<>>
    /\ MaxOutputs(DEFAULT_COIN)[1].address = DstAddress
    /\ Len(OfCoin(txins_all, DEFAULT_COIN)) > 1

\* C6: no function modifies its arguments; after _balance_txouts the map of
\* requested outputs passed to it is unchanged, and a second call with the
\* same arguments (the loop taking the coins in the same order) returns the
\* same result.
C6_AsStated ==
    /\ pc \in {"balancing", "returned", "serialized", "raised"} =>
          txouts_passed_db = PassedDb
    /\ Returned =>
          _balance_txouts(balanced_coins, SrcAddress, txouts, txins_db_filtered,
                          txouts_passed_db, txouts_mint_db, fee, withdrawals,
                          tx_deposit, lovelace_balanced) = txouts_result

\* The selector has returned and the balancer has not yet visited a coin.
JustSelected == AutoSelected /\ pc = "balancing" /\ balanced_coins = <<>>

\* The records of one output identity, in the order of the list.
Group(recs, id) == SelectSeq(recs, LAMBDA r : UtxoId(r) = id)
\* The coins the filter is asked for.
OutcoinsAll == {DEFAULT_COIN} \cup DOMAIN txouts_mint_db \cup DOMAIN PassedDb
Qualifies(rec) == rec.coin \in OutcoinsAll
\* The snapshot position of the first qualifying record of an identity.
FirstQualifying(id) ==
    CHOOSE i \in DOMAIN utxo_snapshot :
        /\ UtxoId(utxo_snapshot[i]) = id /\ Qualifies(utxo_snapshot[i])
        /\ \A j \in 1..(i - 1) :
              ~(UtxoId(utxo_snapshot[j]) = id /\ Qualifies(utxo_snapshot[j]))

\* C7: with auto-selection, the returned inputs hold, for every identity
\* among them, exactly the records the snapshot holds for that identity, in
\* snapshot order, wanted coin or not; the filter's list holds the full
\* group of every identity with a qualifying record once, and no other
\* record, the groups ordered by the position of their first qualifying
\* record.
C7_FullGroups ==
    (JustSelected \/ (AutoSelected /\ pc = "returned")) =>
        /\ \A id \in IdsOf(txins_filtered) :
              Group(txins_filtered, id) = Group(utxo_snapshot, id)
        /\ \A id \in IdsOf(utxo_snapshot) :
              Group(txins_all, id) =
                  IF \E i \in DOMAIN utxo_snapshot :
                        UtxoId(utxo_snapshot[i]) = id /\ Qualifies(utxo_snapshot[i])
                  THEN Group(utxo_snapshot, id)
                  ELSE <<>>
        /\ IdsOf(txins_all) \subseteq IdsOf(utxo_snapshot)
        /\ \A i, j \in DOMAIN txins_all :
              i < j => FirstQualifying(UtxoId(txins_all[i]))
                          <= FirstQualifying(UtxoId(txins_all[j]))
        /\ \A i, j \in DOMAIN txins_filtered :
              (i < j /\ UtxoId(txins_filtered[i]) = UtxoId(txins_filtered[j])) =>
                  \A k \in i..j : UtxoId(txins_filtered[k]) = UtxoId(txins_filtered[i])

\* A selected multi-coin UTxO whose token nobody asked for, next to a
\* token-only UTxO the filter left out.
C7_Witness ==
    /\ Returned /\ AutoSelected
    /\ Token \notin OutcoinsAll
    /\ \E i \in DOMAIN txins_filtered : txins_filtered[i].coin = Token
    /\ IdsOf(txins_all) # IdsOf(utxo_snapshot)

OtherCoin(coin) == IF coin = DEFAULT_COIN THEN Token ELSE DEFAULT_COIN
\* An output with one of its fields changed.
FieldVariants(rec) ==
    { [rec EXCEPT !.coin = OtherCoin(rec.coin)],
      [rec EXCEPT !.address = "addr_other"],
      [rec EXCEPT !.amount = rec.amount + 1],
      [rec EXCEPT !.datum_hash = "datum"],
      [rec EXCEPT !.inline_datum_value = "datum"],
      [rec EXCEPT !.reference_script_file = "script.plutus"] }
\* The output lists that differ from outs in one field of one output.
Variants(outs) ==
    UNION { { [outs EXCEPT ![i] = v] : v \in FieldVariants(outs[i]) } : i \in DOMAIN outs }

\* C8: in both modes, a list of outputs that differs from the balanced
\* outputs in the address, amount, coin, datum or reference script of an
\* output does not serialize to the same argument list.
C8_AsStated ==
    pc = "serialized" =>
        \A alt \in Variants(txouts_result) :
            _process_txouts(alt, join_txouts) # txout_args

\* The balancer computed a negative change for the coin.
Insufficient(coin) == ~Delegated(coin) /\ Surplus(coin) < 0
\* Some non-minted output coin is missing from the candidate inputs.
MissingCoin ==
    ~((({DEFAULT_COIN} \cup DOMAIN PassedDb) \ DOMAIN txouts_mint_db)
          \subseteq DOMAIN txins_db_all)
\* One of the reported conditions has occurred.
C9_ErrorCase ==
    \/ pc # "start" /\ (MissingCoin \/ txins_all = <<>>)
    \/ /\ pc \notin {"start", "prepared"}
       /\ \/ txins_filtered = <<>>
          \/ \E coin \in Elems(balanced_coins) : Insufficient(coin)
\* Each of the reported conditions is logged by the time the orchestrator
\* returns or raises.
C9_Logged ==
    pc \in {"returned", "raised"} =>
        /\ txins_all = <<>> => NoInputMsg \in log
        /\ (txins_all # <<>> /\ MissingCoin) => MissingCoinMsg \in log
        /\ txins_filtered = <<>> => EmptyTxinsMsg \in log
        /\ \A coin \in Elems(balanced_coins) :
              Insufficient(coin) => NotEnoughFundsMsg(coin) \in log
\* The shape of the returned outputs.
C9_Result ==
    pc = "returned" =>
        /\ \A coin \in Coins : Insufficient(coin) => ChangeOutputs(coin) = <<>>
        /\ \A i \in DOMAIN txouts_result : txouts_result[i].amount > 0
        /\ Len(txouts_result) >= Len(KeptTxouts)
        /\ SubSeq(txouts_result, 1, Len(KeptTxouts)) = KeptTxouts
        /\ \A coin \in Coins :
              /\ Len(ChangeOutputs(coin)) <= 1
              /\ \A i \in DOMAIN ChangeOutputs(coin) :
                    ChangeOutputs(coin)[i].amount = Surplus(coin)

\* C9, as stated: when a coin's funds are insufficient, an output coin is
\* missing from the inputs, or the candidate or selected inputs are empty,
\* the error is logged and the orchestrator returns without raising; no
\* change is added for an insufficient coin, every returned output has
\* amount > 0, and the positive requested outputs come first, unchanged and
\* in order, before the change outputs.
C9_AsStated ==
    /\ C9_Logged
    /\ C9_Result
    /\ pc = "raised" => ~C9_ErrorCase
    /\ (pc = "balancing" /\ C9_ErrorCase) =>
          \A coin \in pending : ~TooManyMax(DbGet(txouts_passed_db, coin))

\* C9, amended: as stated, provided no coin has more than one -1 output
\* among the requested outputs; with such a coin the errors are logged and
\* the orchestrator then raises.
C9_LoggedNotRaised ==
    /\ C9_Logged
    /\ C9_Result
    /\ pc = "raised" => (DoubleMax \/ ~C9_ErrorCase)
    /\ (pc = "balancing" /\ ~DoubleMax /\ C9_ErrorCase) =>
          \A coin \in pending : ~TooManyMax(DbGet(txouts_passed_db, coin))

\* Too little lovelace for the requested output next to all tokens sent
\* away: the shortage is logged, the output kept, the token change appended.
C9_Witness ==
    /\ Returned
    /\ Insufficient(DEFAULT_COIN)
    /\ NotEnoughFundsMsg(DEFAULT_COIN) \in log
    /\ KeptTxouts # <<>>
    /\ Len(KeptTxouts) < Len(txouts)
    /\ Appended # <<>>

\* The arguments of the selector's call of the collector for a coin.
CollectorInput(coin) == OfCoin(txins_all, coin)
CollectorAmount(coin) ==
    InputFundsNeeded(coin, PassedDb, txouts_mint_db, fee, withdrawals, tx_deposit)
CollectorTarget(coin) ==
    IF coin = DEFAULT_COIN THEN CollectorAmount(coin) + min_change_value
    ELSE CollectorAmount(coin)
\* The total of the first k UTxOs equals the amount or reaches the target.
PrefixMeets(coin, k) ==
    LET total == SumAmounts(SubSeq(CollectorInput(coin), 1, k))
    IN  total = CollectorAmount(coin) \/ total >= CollectorTarget(coin)
C10_Applies(coin) ==
    /\ JustSelected
    /\ coin \in DOMAIN filtered_coin_utxos
    /\ MaxOutputs(coin) = <<>>

\* C10: the collector returns the shortest prefix of its list whose total
\* equals the amount or is >= the target (amount + min_change_value for the
\* base coin, the amount for any other coin), the whole list when no prefix
\* does, and the empty list for a non-base coin with amount <= 0.
C10_ShortestPrefix ==
    \A coin \in Coins :
        C10_Applies(coin) =>
            LET res == filtered_coin_utxos[coin]
                n == Len(res)
            IN  /\ n <= Len(CollectorInput(coin))
                /\ res = SubSeq(CollectorInput(coin), 1, n)
                /\ PrefixMeets(coin, n) \/ n = Len(CollectorInput(coin))
                /\ \A k \in 0..(n - 1) : ~PrefixMeets(coin, k)
                /\ (coin # DEFAULT_COIN /\ CollectorAmount(coin) <= 0) => res = <<>>

\* The collector stops at the exact amount below the target, and takes no
\* token UTxO when no token is needed.
C10_Witness ==
    /\ C10_Applies(DEFAULT_COIN) /\ C10_Applies(Token)
    /\ min_change_value > 0
    /\ Len(filtered_coin_utxos[DEFAULT_COIN]) = 1
    /\ Len(CollectorInput(DEFAULT_COIN)) = 2
    /\ SumAmounts(filtered_coin_utxos[DEFAULT_COIN]) = CollectorAmount(DEFAULT_COIN)
    /\ CollectorAmount(Token) <= 0
    /\ CollectorInput(Token) # <<>>
    /\ filtered_coin_utxos[Token] = <<>>

\* The change the balancer computes for a coin from the given inputs.
ChangeFrom(coin, inputs) ==
    CoinChange(coin, OfCoin(inputs, coin), AfterPop(DbGet(PassedDb, coin)),
               txouts_mint_db, fee, withdrawals, tx_deposit, lovelace_balanced)

\* C11: with automatic selection, for every coin for which balancing all the
\* candidate inputs gives a change >= 0, balancing the returned inputs (all
\* records of every selected identity) gives a change >= 0 too, and no
\* insufficient-funds error is logged for the coin.
C11_NoShortfall ==
    (AutoSelected /\ pc = "returned") =>
        \A coin \in Coins :
            ChangeFrom(coin, txins_all) >= 0 =>
                /\ ChangeFrom(coin, txins_filtered) >= 0
                /\ NotEnoughFundsMsg(coin) \notin log

\* A part of the lovelace candidates is selected and covers outputs, fee and
\* deposit exactly, with a withdrawal; the token is covered by a part of the
\* UTxOs too.
C11_Witness ==
    /\ AutoSelected /\ pc = "returned"
    /\ withdrawals # <<>> /\ fee > 0 /\ tx_deposit > 0
    /\ Len(txins_filtered) < Len(txins_all)
    /\ InputTotal(DEFAULT_COIN) < CandidateTotal(DEFAULT_COIN)
    /\ ChangeFrom(DEFAULT_COIN, txins_all) > ChangeFrom(DEFAULT_COIN, txins_filtered)
    /\ ChangeFrom(DEFAULT_COIN, txins_filtered) >= 0
    /\ RequestedTotal(DEFAULT_COIN) > 0
    /\ Elems(balanced_coins) = Coins

====
